---- MODULE Spec2Model ----
(***************************************************************************)
(* Model of lib/PrintAsClang/PrintAsClang.cpp: the assembly of a generated *)
(* Clang header (printAsClangHeader) and the sorting, filtering and        *)
(* printing of its import block (writeImports, compareImportModulesByName).*)
(*                                                                         *)
(* Text is modelled as it is written: a string is a sequence of character  *)
(* codes, the output stream is a sequence of lines, and a line is a record *)
(* [dir, text, arg]: the preprocessor directive (or "@import", "decl",     *)
(* "comment", "blank"), the fixed text after it, and the computed text     *)
(* (a module name, a macro guard, a path) spliced into it.                 *)
(***************************************************************************)
EXTENDS Integers, Sequences, FiniteSets, TLC

\* ------------------------------------------------------------------ bounds
\* The modules other than itself that the printed module's declarations
\* refer to, over both passes.
MaxImports == 3

\* ------------------------------------------------------------------ inputs
\* The names "A", "B", "Ba" and "a": in byte order, "B" a proper prefix of
\* "Ba", "a" the lower-case form of "A".
NameA == <<65>>
NameB == <<66>>
NameBa == <<66, 97>>
NameLowerA == <<97>>
\* Names of the module being printed.
PrintedNames == {NameBa, NameLowerA}
\* The bridging-header argument: empty (none supplied) or the path "h.h".
BridgingHeaders == {<<>>, <<104, 46, 104>>}
\* "_SWIFT_H"
GuardSuffix == <<95, 83, 87, 73, 70, 84, 95, 72>>
\* ".h"
DotH == <<46, 104>>

\* ---------------------------------------------------------------- strings
\* llvm::StringRef::compare: byte-wise, shorter prefix first; -1, 0 or 1.
RECURSIVE StrCompare(_, _)
StrCompare(s, t) ==
  IF s = <<>> /\ t = <<>> THEN 0
  ELSE IF s = <<>> THEN -1
  ELSE IF t = <<>> THEN 1
  ELSE IF Head(s) < Head(t) THEN -1
  ELSE IF Head(s) > Head(t) THEN 1
  ELSE StrCompare(Tail(s), Tail(t))

\* operator< of StringRef / std::string.
StrLess(s, t) == StrCompare(s, t) < 0

\* std::toupper on one ASCII character.
ToUpper(c) == IF c >= 97 /\ c <= 122 THEN c - 32 ELSE c

\* StringRef::upper.
Upper(s) == [i \in 1..Len(s) |-> ToUpper(s[i])]

RECURSIVE Reverse(_)
Reverse(s) == IF s = <<>> THEN <<>> ELSE Append(Reverse(Tail(s)), Head(s))

\* std::lexicographical_compare over two ranges of StringRef.
RECURSIVE LexicographicalCompare(_, _)
LexicographicalCompare(p, q) ==
  IF q = <<>> THEN FALSE
  ELSE IF p = <<>> THEN TRUE
  ELSE IF StrLess(Head(p), Head(q)) THEN TRUE
  ELSE IF StrLess(Head(q), Head(p)) THEN FALSE
  ELSE LexicographicalCompare(Tail(p), Tail(q))

\* ------------------------------------------------------- import entries
\* ImportModuleTy: a ModuleDecl* (kind "swift": an object identity and a name)
\* or a const clang::Module* (kind "clang": a submodule, identified by its
\* full name, top-level component first).
SwiftModule(i, n) == [kind |-> "swift", id |-> i, path |-> <<n>>]
ClangModule(p) == [kind |-> "clang", id |-> 0, path |-> p]

\* ModuleDecl::getName.
getName(m) == m.path[1]

\* clang::Module::getTopLevelModuleName.
getTopLevelModuleName(m) == m.path[1]

\* ModuleDecl::ReverseFullNameIterator: the components from the leaf up.
ReverseFullName(m) == Reverse(m.path)

\* clang::Module::isSubModule.
isSubModule(m) == Len(m.path) >= 2

\* The foreign submodules A.a, A.a.A, B.a and Ba.A: one a prefix of
\* another, top-level names that are and are not names of compiler-native
\* modules, one top-level name a prefix of another.
ClangModules ==
  {ClangModule(p) : p \in {<<NameA, NameLowerA>>, <<NameA, NameLowerA, NameA>>,
                           <<NameB, NameLowerA>>, <<NameBa, NameA>>}}

\* ClangImporter::getImportedHeaderModule: the module that stands for the
\* bridging header's contents.
ImportedHeaderModule == SwiftModule(3, NameLowerA)

\* The compiler-native modules: two distinct modules (an overlay and the
\* module it overlays) named "A", one named "B", one named "a", and the
\* imported header module.
SwiftModules ==
  {SwiftModule(1, NameA), SwiftModule(2, NameA), SwiftModule(1, NameB),
   SwiftModule(1, NameLowerA), ImportedHeaderModule}

\* The modules other than the printed one that a pass can register.
Entries == SwiftModules \cup ClangModules

\* The module being printed, M.
PrintedModule(n) == SwiftModule(0, n)

\* --------------------------------------------------------- the comparator
\* Variants of the comparator, each with one slip.
\* Two Clang paths compared from the leaf up (begin() for rbegin()).
compareLeafFirst(left, right) ==
  IF left.kind = "swift" /\ right.kind = "swift"
    THEN StrCompare(getName(left), getName(right))
  ELSE IF left.kind = "swift"
    THEN IF StrLess(getTopLevelModuleName(right), getName(left)) THEN 1 ELSE -1
  ELSE IF right.kind = "swift"
    THEN IF StrLess(getTopLevelModuleName(left), getName(right)) THEN -1 ELSE 1
  ELSE IF LexicographicalCompare(ReverseFullName(left), ReverseFullName(right))
    THEN -1
  ELSE 1

\* Two Swift names compared without regard to case.
compareIgnoringCase(left, right) ==
  IF left.kind = "swift" /\ right.kind = "swift"
    THEN StrCompare(Upper(getName(left)), Upper(getName(right)))
  ELSE IF left.kind = "swift"
    THEN IF StrLess(getTopLevelModuleName(right), getName(left)) THEN 1 ELSE -1
  ELSE IF right.kind = "swift"
    THEN IF StrLess(getTopLevelModuleName(left), getName(right)) THEN -1 ELSE 1
  ELSE IF LexicographicalCompare(Reverse(ReverseFullName(left)),
                                 Reverse(ReverseFullName(right)))
    THEN -1
  ELSE 1

\* A Clang top-level name compared with a Swift name by compare(), so that
\* equal names give 0.
compareTopLevelThreeWay(left, right) ==
  IF left.kind = "swift" /\ right.kind = "swift"
    THEN StrCompare(getName(left), getName(right))
  ELSE IF left.kind = "swift"
    THEN -StrCompare(getTopLevelModuleName(right), getName(left))
  ELSE IF right.kind = "swift"
    THEN StrCompare(getTopLevelModuleName(left), getName(right))
  ELSE IF LexicographicalCompare(Reverse(ReverseFullName(left)),
                                 Reverse(ReverseFullName(right)))
    THEN -1
  ELSE 1

\* The swapped call for a Swift left operand not negated.
compareSwapNotNegated(left, right) ==
  IF left.kind = "swift" /\ right.kind = "swift"
    THEN StrCompare(getName(left), getName(right))
  ELSE IF left.kind = "swift"
    THEN IF StrLess(getTopLevelModuleName(right), getName(left)) THEN -1 ELSE 1
  ELSE IF right.kind = "swift"
    THEN IF StrLess(getTopLevelModuleName(left), getName(right)) THEN -1 ELSE 1
  ELSE IF LexicographicalCompare(Reverse(ReverseFullName(left)),
                                 Reverse(ReverseFullName(right)))
    THEN -1
  ELSE 1

RECURSIVE compareImportModulesByName(_, _)
compareImportModulesByName(left, right) ==
  LET leftSwiftModule == left.kind = "swift"
      rightSwiftModule == right.kind = "swift"
  IN IF leftSwiftModule /\ ~rightSwiftModule
       THEN -compareImportModulesByName(right, left)
     ELSE IF leftSwiftModule /\ rightSwiftModule
       THEN StrCompare(getName(left), getName(right))
     ELSE IF rightSwiftModule
       THEN IF StrLess(getTopLevelModuleName(left), getName(right)) THEN -1 ELSE 1
     ELSE IF LexicographicalCompare(Reverse(ReverseFullName(left)),
                                    Reverse(ReverseFullName(right)))
       THEN -1
     ELSE 1

\* The assertions of compareImportModulesByName on a pair it is given: a
\* Clang entry is a submodule, and two Clang entries differ in full name.
compareAssertionsHold(left, right) ==
  /\ left.kind = "clang" => isSubModule(left)
  /\ right.kind = "clang" => isSubModule(right)
  /\ (left.kind = "clang" /\ right.kind = "clang")
       => ReverseFullName(left) # ReverseFullName(right)

\* llvm::array_pod_sort (qsort) over the set's elements in whatever order
\* the pointer set iterates them: every arrangement of the elements in which
\* no element is followed by one the comparator puts before it.
Arrangements(S) ==
  {s \in [1..Cardinality(S) -> S] : \A i, j \in 1..Cardinality(S) : i # j => s[i] # s[j]}

array_pod_sort(S) ==
  {s \in Arrangements(S) :
     \A i \in 1..(Len(s) - 1) : compareImportModulesByName(s[i], s[i + 1]) <= 0}

\* ------------------------------------------------------------------ lines
Line(d, t) == [dir |-> d, text |-> t, arg |-> <<>>]
LineArg(d, t, a) == [dir |-> d, text |-> t, arg |-> a]
Blank == Line("blank", "")

\* ReverseFullNameIterator::printForward: the components from the top-level
\* one down, separated by '.'.
RECURSIVE JoinForward(_)
JoinForward(p) ==
  IF Len(p) = 1 THEN p[1] ELSE p[1] \o <<46>> \o JoinForward(Tail(p))

printForward(reverseName) == JoinForward(Reverse(reverseName))

AtImport(name) == LineArg("@import", ";", name)

\* ----------------------------------------------------------- writeImports
\* The underlying module told by its name, bridging header or not.
isUnderlyingModuleByName(M, bridgingHeader, import) ==
  import # M /\ getName(import) = getName(M)

isUnderlyingModule(M, bridgingHeader, import) ==
  IF bridgingHeader = <<>>
    THEN import # M /\ getName(import) = getName(M)
    ELSE import = ImportedHeaderModule

\* The loop without the seenImports test.
RECURSIVE importLoopNotTracking(_, _, _, _, _, _)
importLoopNotTracking(sortedImports, M, bridgingHeader, seenImports, includeUnderlying, written) ==
  IF sortedImports = <<>>
    THEN [lines |-> written, includeUnderlying |-> includeUnderlying]
  ELSE
    LET import == Head(sortedImports)
        rest == Tail(sortedImports)
    IN IF import.kind = "swift"
         THEN IF isUnderlyingModule(M, bridgingHeader, import)
                THEN importLoopNotTracking(rest, M, bridgingHeader, seenImports, TRUE,
                                           written)
              ELSE importLoopNotTracking(rest, M, bridgingHeader, seenImports,
                                         includeUnderlying,
                                         Append(written, AtImport(getName(import))))
       ELSE importLoopNotTracking(rest, M, bridgingHeader, seenImports, includeUnderlying,
                                  Append(written,
                                         AtImport(printForward(ReverseFullName(import)))))

\* The loop over sortedImports: the lines written, in order, and the final
\* value of includeUnderlying.
RECURSIVE importLoop(_, _, _, _, _, _)
importLoop(sortedImports, M, bridgingHeader, seenImports, includeUnderlying, written) ==
  IF sortedImports = <<>>
    THEN [lines |-> written, includeUnderlying |-> includeUnderlying]
  ELSE
    LET import == Head(sortedImports)
        rest == Tail(sortedImports)
    IN IF import.kind = "swift"
         THEN IF isUnderlyingModule(M, bridgingHeader, import)
                THEN importLoop(rest, M, bridgingHeader, seenImports, TRUE, written)
              ELSE IF getName(import) \notin seenImports
                THEN importLoop(rest, M, bridgingHeader,
                                seenImports \cup {getName(import)}, includeUnderlying,
                                Append(written, AtImport(getName(import))))
              ELSE importLoop(rest, M, bridgingHeader, seenImports,
                              includeUnderlying, written)
       ELSE importLoop(rest, M, bridgingHeader, seenImports, includeUnderlying,
                       Append(written, AtImport(printForward(ReverseFullName(import)))))

underlyingInclude(M, bridgingHeader) ==
  IF bridgingHeader = <<>>
    THEN LineArg("import", "<>", getName(M) \o <<47>> \o getName(M) \o DotH)
    ELSE LineArg("import", "quoted", bridgingHeader)

writeImports(sortedImports, M, bridgingHeader) ==
  LET loop == importLoop(sortedImports, M, bridgingHeader, {}, FALSE, <<>>)
  IN << Line("if", "__has_feature(modules)"),
        Line("if", "__has_warning(-Watimport-in-framework-header)"),
        Line("pragma", "clang diagnostic ignored -Watimport-in-framework-header"),
        Line("endif", "") >>
     \o loop.lines
     \o << Line("endif", ""), Blank >>
     \o (IF loop.includeUnderlying
           THEN << underlyingInclude(M, bridgingHeader), Blank >>
           ELSE << >>)

\* ------------------------------------------------- conditional emission
cxxConditionalOpen == << Line("if defined", "__cplusplus") >>
cxxConditionalClose == << Line("endif", "") >>

emitCxxConditional(cxxCase, hasCCase, cCase) ==
  cxxConditionalOpen
  \o cxxCase
  \o (IF hasCCase THEN << Line("else", "") >> \o cCase ELSE << >>)
  \o cxxConditionalClose

emitObjCConditional(objcCase, hasNonObjCCase, nonObjCCase) ==
  << Line("if defined", "__OBJC__") >>
  \o objcCase
  \o (IF hasNonObjCCase THEN << Line("else", "") >> \o nonObjCCase ELSE << >>)
  \o << Line("endif", "") >>

\* ------------------------------------------------------- the macro tables
\* swift/ClangImporter/SIMDMappedTypes.def: the C types MAP_SIMD_TYPE is
\* expanded for.
SIMDMappedTypes == << "float", "double" >>

\* MAP_SIMD_TYPE: three typedefs, of 2, 3 and 4 elements.
MAP_SIMD_TYPE(cType) ==
  << LineArg("typedef", cType, <<50>>),
     LineArg("typedef", cType, <<51>>),
     LineArg("typedef", cType, <<52>>) >>

\* swift/PrintAsClang/ClangMacros.def: one entry of each form the file may
\* hold.
ClangMacros ==
  << [macro |-> "CLANG_MACRO", name |-> "M1"],
     [macro |-> "CLANG_MACRO_BODY", name |-> "M2"],
     [macro |-> "CLANG_MACRO_ALTERNATIVE", name |-> "M3"],
     [macro |-> "CLANG_MACRO_OBJC", name |-> "M4"],
     [macro |-> "CLANG_MACRO_CXX", name |-> "M5"],
     [macro |-> "CLANG_MACRO_CXX_BODY", name |-> "M6"] >>

CLANG_MACRO_BODY(name, body) ==
  << Line("if !defined", name) >> \o body \o << Line("endif", "") >>

CLANG_MACRO(name) == CLANG_MACRO_BODY(name, << Line("define", name) >>)

CLANG_MACRO_ALTERNATIVE(name) ==
  CLANG_MACRO_BODY(name,
    << Line("if", "CONDITION"),
       Line("define", name),
       Line("else", ""),
       Line("define", name),
       Line("endif", "") >>)

CLANG_MACRO_OBJC(name) ==
  << Line("if defined", "__OBJC__"),
     Line("if !defined", name),
     Line("define", name),
     Line("endif", ""),
     Line("endif", "") >>

CLANG_MACRO_CXX(name) ==
  << Line("if defined", "__cplusplus"),
     Line("define", name),
     Line("else", ""),
     Line("define", name),
     Line("endif", "") >>

CLANG_MACRO_CXX_BODY(name, body) ==
  << Line("if defined", "__cplusplus") >> \o body \o << Line("endif", "") >>

expandMacro(e) ==
  IF e.macro = "CLANG_MACRO" THEN CLANG_MACRO(e.name)
  ELSE IF e.macro = "CLANG_MACRO_BODY"
    THEN CLANG_MACRO_BODY(e.name, << Line("define", e.name) >>)
  ELSE IF e.macro = "CLANG_MACRO_ALTERNATIVE" THEN CLANG_MACRO_ALTERNATIVE(e.name)
  ELSE IF e.macro = "CLANG_MACRO_OBJC" THEN CLANG_MACRO_OBJC(e.name)
  ELSE IF e.macro = "CLANG_MACRO_CXX" THEN CLANG_MACRO_CXX(e.name)
  ELSE CLANG_MACRO_CXX_BODY(e.name, << Line("define", e.name) >>)

\* #include "swift/PrintAsClang/ClangMacros.def"
RECURSIVE includeClangMacros(_)
includeClangMacros(table) ==
  IF table = <<>> THEN <<>>
  ELSE expandMacro(Head(table)) \o includeClangMacros(Tail(table))

\* #include "swift/ClangImporter/SIMDMappedTypes.def"
RECURSIVE includeSIMDMappedTypes(_)
includeSIMDMappedTypes(table) ==
  IF table = <<>> THEN <<>>
  ELSE MAP_SIMD_TYPE(Head(table)) \o includeSIMDMappedTypes(Tail(table))

\* ---------------------------------------------------------- writePrologue
computeMacroGuard(M) == Upper(getName(M)) \o GuardSuffix

writePrologue(macroGuard) ==
  << Line("comment", "Generated by <swift version>"),
     LineArg("ifndef", "", macroGuard),
     LineArg("define", "", macroGuard),
     Line("pragma", "clang diagnostic push"),
     Line("pragma", "clang diagnostic ignored -Wgcc-compat"),
     Blank,
     Line("if !defined", "__has_include"),
     Line("define", "__has_include(x) 0"),
     Line("endif", ""),
     Line("if !defined", "__has_attribute"),
     Line("define", "__has_attribute(x) 0"),
     Line("endif", ""),
     Line("if !defined", "__has_feature"),
     Line("define", "__has_feature(x) 0"),
     Line("endif", ""),
     Line("if !defined", "__has_warning"),
     Line("define", "__has_warning(x) 0"),
     Line("endif", ""),
     Blank,
     Line("if", "__has_include(<swift/objc-prologue.h>)"),
     Line("include", "<swift/objc-prologue.h>"),
     Line("endif", ""),
     Blank,
     Line("pragma", "clang diagnostic ignored -Wauto-import") >>
  \o emitObjCConditional(<< Line("include", "<Foundation/Foundation.h>") >>, FALSE, << >>)
  \o emitCxxConditional(
       << Line("include", "<cstdint>"),
          Line("include", "<cstddef>"),
          Line("include", "<cstdbool>") >>,
       TRUE,
       << Line("include", "<stdint.h>"),
          Line("include", "<stddef.h>"),
          Line("include", "<stdbool.h>") >>)
  \o << Blank,
        Line("if !defined", "SWIFT_TYPEDEFS"),
        Line("define", "SWIFT_TYPEDEFS 1"),
        Line("if", "__has_include(<uchar.h>)"),
        Line("include", "<uchar.h>"),
        Line("elif", "!defined(__cplusplus)"),
        Line("typedef", "uint_least16_t char16_t"),
        Line("typedef", "uint_least32_t char32_t"),
        Line("endif", "") >>
  \o includeSIMDMappedTypes(SIMDMappedTypes)
  \o << Line("endif", ""), Blank >>
  \o includeClangMacros(ClangMacros)

\* ------------------------------------------------ writePostImportPrologue
writePostImportPrologue(M) ==
  << Line("pragma", "clang diagnostic ignored -Wproperty-attribute-mismatch"),
     Line("pragma", "clang diagnostic ignored -Wduplicate-method-arg"),
     Line("if", "__has_warning(-Wpragma-clang-attribute)"),
     Line("pragma", "clang diagnostic ignored -Wpragma-clang-attribute"),
     Line("endif", ""),
     Line("pragma", "clang diagnostic ignored -Wunknown-pragmas"),
     Line("pragma", "clang diagnostic ignored -Wnullability"),
     Line("pragma", "clang diagnostic ignored -Wdollar-in-identifier-extension"),
     Blank,
     Line("if", "__has_attribute(external_source_symbol)"),
     Line("pragma", "push_macro(any)"),
     Line("undef", "any"),
     LineArg("pragma", "clang attribute push", getName(M)),
     Line("pragma", "pop_macro(any)"),
     Line("endif", ""),
     Blank >>

\* The epilogue without the #endif of the macro guard.
writeEpilogueGuardLeftOpen ==
  << Line("if", "__has_attribute(external_source_symbol)"),
     Line("pragma", "clang attribute pop"),
     Line("endif", ""),
     Line("pragma", "clang diagnostic pop") >>

\* ---------------------------------------------------------- writeEpilogue
writeEpilogue ==
  << Line("if", "__has_attribute(external_source_symbol)"),
     Line("pragma", "clang attribute pop"),
     Line("endif", ""),
     Line("pragma", "clang diagnostic pop"),
     Line("endif", "") >>

\* ------------------------------------------------------ the two printers
\* The text a pass renders: nothing when no declaration applies to the pass,
\* and otherwise the declarations' text, which opens and closes no scope.
renderedDecls(pass, any) == IF any THEN << Line("decl", pass) >> ELSE << >>

SmallSubsets(S, k) == {T \in SUBSET S : Cardinality(T) <= k}

\* The C++ pass registering into the caller's accumulator.
getModuleContentsCxxStringSharing(callerImports, registered, any) ==
  [callerImports |-> callerImports \cup registered,
   imports |-> registered,
   moduleContents |-> renderedDecls("cxx", any)]

\* getModuleContentsCxxString: the C++ pass registers into a set local to
\* the function and returns the rendered text alone.
getModuleContentsCxxString(callerImports, registered, any) ==
  [callerImports |-> callerImports,
   imports |-> registered,
   moduleContents |-> renderedDecls("cxx", any)]

\* ------------------------------------------------------------------ state
VARIABLES
  pc,                  \* the statement of printAsClangHeader that runs next
  M,                   \* the module being printed
  bridgingHeader,      \* the bridging-header argument
  ExposePublicDeclsInClangHeader,
  imports,             \* the accumulator of printAsClangHeader
  objcModuleContents,  \* the buffer the Objective-C pass renders into
  cxxImports,          \* the accumulator of getModuleContentsCxxString
  cxxModuleContents,   \* the text getModuleContentsCxxString returned
  os,                  \* the output stream
  result               \* the value returned, "none" until the call returns

vars == << pc, M, bridgingHeader, ExposePublicDeclsInClangHeader, imports,
           objcModuleContents, cxxImports, cxxModuleContents, os, result >>

args == << M, bridgingHeader, ExposePublicDeclsInClangHeader >>

Init ==
  /\ pc = "printModuleContentsAsObjC"
  /\ M \in {PrintedModule(n) : n \in PrintedNames}
  /\ bridgingHeader \in BridgingHeaders
  /\ ExposePublicDeclsInClangHeader \in BOOLEAN
  /\ imports = {}
  /\ objcModuleContents = << >>
  /\ cxxImports = {}
  /\ cxxModuleContents = << >>
  /\ os = << >>
  /\ result = "none"

\* printModuleContentsAsObjC(objcModuleContents, imports, *M)
PrintModuleContentsAsObjC ==
  /\ pc = "printModuleContentsAsObjC"
  /\ \E registered \in SmallSubsets(Entries, MaxImports), any \in BOOLEAN :
       /\ imports' = imports \cup registered
       /\ objcModuleContents' = renderedDecls("objc", any)
  /\ pc' = "writePrologue"
  /\ UNCHANGED << args, cxxImports, cxxModuleContents, os, result >>

\* writePrologue(os, M->getASTContext(), computeMacroGuard(M))
WritePrologue ==
  /\ pc = "writePrologue"
  /\ os' = os \o writePrologue(computeMacroGuard(M))
  /\ pc' = "writeImports"
  /\ UNCHANGED << args, imports, objcModuleContents, cxxImports, cxxModuleContents, result >>

\* emitObjCConditional(os, [&] { writeImports(os, imports, *M, bridgingHeader); })
WriteImports ==
  /\ pc = "writeImports"
  /\ \E sortedImports \in array_pod_sort(imports) :
       os' = os \o emitObjCConditional(writeImports(sortedImports, M, bridgingHeader),
                                       FALSE, << >>)
  /\ pc' = "writePostImportPrologue"
  /\ UNCHANGED << args, imports, objcModuleContents, cxxImports, cxxModuleContents, result >>

\* writePostImportPrologue(os, *M)
WritePostImportPrologue ==
  /\ pc = "writePostImportPrologue"
  /\ os' = os \o writePostImportPrologue(M)
  /\ pc' = "objcBody"
  /\ UNCHANGED << args, imports, objcModuleContents, cxxImports, cxxModuleContents, result >>

\* The Objective-C body written and the C++ body block left out.
WriteObjCBodyThenEpilogue ==
  /\ pc = "objcBody"
  /\ os' = os \o emitObjCConditional(objcModuleContents, FALSE, << >>)
  /\ pc' = "writeEpilogue"
  /\ UNCHANGED << args, imports, objcModuleContents, cxxImports, cxxModuleContents, result >>

\* emitObjCConditional(os, [&] { os << objcModuleContents.str(); })
WriteObjCBody ==
  /\ pc = "objcBody"
  /\ os' = os \o emitObjCConditional(objcModuleContents, FALSE, << >>)
  /\ pc' = "cxxBody"
  /\ UNCHANGED << args, imports, objcModuleContents, cxxImports, cxxModuleContents, result >>

\* The C++ printer run whatever ExposePublicDeclsInClangHeader is.
OpenCxxBodyUngated ==
  /\ pc = "cxxBody"
  /\ os' = os \o cxxConditionalOpen
  /\ pc' = "getModuleContentsCxxString"
  /\ UNCHANGED << args, imports, objcModuleContents, cxxImports, cxxModuleContents, result >>

\* emitCxxConditional(os, [&] { if (ExposePublicDeclsInClangHeader) ... }):
\* the #if line, and the test of the flag.
OpenCxxBody ==
  /\ pc = "cxxBody"
  /\ os' = os \o cxxConditionalOpen
  /\ pc' = IF ExposePublicDeclsInClangHeader THEN "getModuleContentsCxxString"
                                             ELSE "cxxBodyEnd"
  /\ UNCHANGED << args, imports, objcModuleContents, cxxImports, cxxModuleContents, result >>

\* getModuleContentsCxxString(*M), up to its return statement.
GetModuleContentsCxxString ==
  /\ pc = "getModuleContentsCxxString"
  /\ \E registered \in SmallSubsets(Entries, MaxImports - Cardinality(imports)),
        any \in BOOLEAN :
       LET call == getModuleContentsCxxString(imports, registered, any)
       IN /\ imports' = call.callerImports
          /\ cxxImports' = call.imports
          /\ cxxModuleContents' = call.moduleContents
  /\ pc' = "cxxBodyWrite"
  /\ UNCHANGED << args, objcModuleContents, os, result >>

\* os << getModuleContentsCxxString(*M): the function returns, which ends
\* the life of its accumulator, and the text is written.
WriteCxxContents ==
  /\ pc = "cxxBodyWrite"
  /\ os' = os \o cxxModuleContents
  /\ cxxImports' = {}
  /\ pc' = "cxxBodyEnd"
  /\ UNCHANGED << args, imports, objcModuleContents, cxxModuleContents, result >>

\* The #endif line of emitCxxConditional.
CloseCxxBody ==
  /\ pc = "cxxBodyEnd"
  /\ os' = os \o cxxConditionalClose
  /\ pc' = "writeEpilogue"
  /\ UNCHANGED << args, imports, objcModuleContents, cxxImports, cxxModuleContents, result >>

\* writeEpilogue(os)
WriteEpilogue ==
  /\ pc = "writeEpilogue"
  /\ os' = os \o writeEpilogue
  /\ pc' = "return"
  /\ UNCHANGED << args, imports, objcModuleContents, cxxImports, cxxModuleContents, result >>

\* return false
Return ==
  /\ pc = "return"
  /\ result' = FALSE
  /\ pc' = "done"
  /\ UNCHANGED << args, imports, objcModuleContents, cxxImports, cxxModuleContents, os >>

Next ==
  \/ PrintModuleContentsAsObjC
  \/ WritePrologue
  \/ WriteImports
  \/ WritePostImportPrologue
  \/ WriteObjCBody
  \/ OpenCxxBody
  \/ GetModuleContentsCxxString
  \/ WriteCxxContents
  \/ CloseCxxBody
  \/ WriteEpilogue
  \/ Return

Spec == Init /\ [][Next]_vars

\* ============================================================== properties
\* Vocabulary of the properties, independent of the operators above.
AfterImports ==
  pc \notin {"printModuleContentsAsObjC", "writePrologue", "writeImports"}

AfterCxxBody == pc \in {"writeEpilogue", "return", "done"}

Finished == pc \in {"return", "done"}

\* The text one entry is imported by.
ImportedAs(e) ==
  IF e.kind = "swift" THEN e.path[1]
  ELSE IF Len(e.path) = 2 THEN e.path[1] \o <<46>> \o e.path[2]
  ELSE e.path[1] \o <<46>> \o e.path[2] \o <<46>> \o e.path[3]

IsAtImport(l) == l.dir = "@import"
IsInclude(l) == l.dir = "import"
AtImportLines(out) == SelectSeq(out, IsAtImport)
IncludeLines(out) == SelectSeq(out, IsInclude)
Positions(out, l) == {i \in DOMAIN out : out[i] = l}

PcOrder ==
  << "printModuleContentsAsObjC", "writePrologue", "writeImports",
     "writePostImportPrologue", "objcBody", "cxxBody",
     "getModuleContentsCxxString", "cxxBodyWrite", "cxxBodyEnd",
     "writeEpilogue", "return", "done" >>

PcIndex(p) == CHOOSE i \in DOMAIN PcOrder : PcOrder[i] = p

\* ---------------------------------------------------------------------- C1
\* The six blocks as one call writes them, for one sorted order of imports.
SixBlocks(sortedImports) ==
  writePrologue(computeMacroGuard(M))
  \o emitObjCConditional(writeImports(sortedImports, M, bridgingHeader), FALSE, << >>)
  \o writePostImportPrologue(M)
  \o emitObjCConditional(objcModuleContents, FALSE, << >>)
  \o emitCxxConditional(IF ExposePublicDeclsInClangHeader THEN cxxModuleContents
                                                            ELSE << >>, FALSE, << >>)
  \o writeEpilogue

\* A line that begins a block and occurs nowhere else in a header.
PrologueMark == Line("comment", "Generated by <swift version>")
ImportMark == Line("if", "__has_feature(modules)")
PostImportMark == Line("pragma", "clang diagnostic ignored -Wproperty-attribute-mismatch")
EpilogueMark == Line("pragma", "clang attribute pop")

\* C1: one call of printAsClangHeader runs its statements in source order,
\* never going back and skipping only the C++ printer when the flag is false;
\* every statement but the last leaves a next one to run;
\* and when the call has returned, the value returned is false and the stream
\* holds the Prologue, the import block, the post-import prologue, the
\* Objective-C body, the C++ body and the Epilogue, in this order, each once.
C1_LinearPipeline ==
  /\ [][\/ PcIndex(pc') = PcIndex(pc) + 1
        \/ pc = "cxxBody" /\ ~ExposePublicDeclsInClangHeader /\ pc' = "cxxBodyEnd"]_vars
  /\ [](pc # "done" => ENABLED Next)
  /\ [](pc = "done" =>
          /\ result = FALSE
          /\ \E sortedImports \in array_pod_sort(imports) : os = SixBlocks(sortedImports)
          /\ \A mark \in {PrologueMark, ImportMark, PostImportMark, EpilogueMark} :
               Cardinality(Positions(os, mark)) = 1)

C1_Witness ==
  /\ pc = "done"
  /\ result = FALSE
  /\ Cardinality(imports) = MaxImports
  /\ ExposePublicDeclsInClangHeader
  /\ bridgingHeader # << >>
  /\ objcModuleContents # << >>
  /\ cxxModuleContents # << >>

\* ---------------------------------------------------------------------- C7
\* The line that opens the C++ body block: the last #if defined(__cplusplus).
CxxBodyStart(out) ==
  CHOOSE i \in Positions(out, Line("if defined", "__cplusplus")) :
    \A j \in Positions(out, Line("if defined", "__cplusplus")) : j <= i

\* C7: once the C++ body block is written, its #if defined(__cplusplus) line
\* is followed at once by its #endif when ExposePublicDeclsInClangHeader is
\* false, and by the C++ rendering of the module and then the #endif when it
\* is true.
C7_CxxBodyGated ==
  AfterCxxBody =>
    LET k == CxxBodyStart(os)
        n == Len(cxxModuleContents)
    IN /\ Positions(os, Line("if defined", "__cplusplus")) # {}
       /\ k > Len(writePrologue(computeMacroGuard(M)))
       /\ IF ExposePublicDeclsInClangHeader
            THEN /\ SubSeq(os, k + 1, k + n) = cxxModuleContents
                 /\ os[k + n + 1] = Line("endif", "")
            ELSE /\ os[k + 1] = Line("endif", "")
                 /\ \A i \in DOMAIN os : os[i] # Line("decl", "cxx")

C7_Witness ==
  /\ pc = "done"
  /\ ~ExposePublicDeclsInClangHeader
  /\ objcModuleContents # << >>
  /\ os[CxxBodyStart(os) + 1] = Line("endif", "")

C7_WitnessExposed ==
  /\ pc = "done"
  /\ ExposePublicDeclsInClangHeader
  /\ os[CxxBodyStart(os) + 1] = Line("decl", "cxx")

\* ---------------------------------------------------------------------- C8
OpensIf(l) == l.dir \in {"if", "ifndef", "if defined", "if !defined"}
ClosesIf(l) == l.dir = "endif"

ScopeChange(l) == IF OpensIf(l) THEN 1 ELSE IF ClosesIf(l) THEN -1 ELSE 0

\* The #if nesting depth after each of the lines lo..hi of out, the depth
\* before line lo being d.
RECURSIVE DepthsOver(_, _, _, _)
DepthsOver(out, lo, hi, d) ==
  IF lo > hi THEN << >>
  ELSE IF lo = hi THEN << d + ScopeChange(out[lo]) >>
  ELSE LET mid == (lo + hi) \div 2
           left == DepthsOver(out, lo, mid, d)
       IN left \o DepthsOver(out, mid + 1, hi, left[Len(left)])

Depths(out) == DepthsOver(out, 1, Len(out), 0)

\* The #if line whose scope directly holds line i, a line that neither opens
\* nor closes a scope: the last one before it that leaves the depth of line i.
EnclosingIf(out, depths, i) ==
  LET openers == {j \in 1..(i - 1) : OpensIf(out[j]) /\ depths[j] = depths[i]}
  IN CHOOSE j \in openers : \A k \in openers : k <= j

\* The macro guard of each printed name, written out: "BA_SWIFT_H" for "Ba",
\* "A_SWIFT_H" for "a".
ExpectedGuard ==
  IF getName(M) = NameBa
    THEN <<66, 65, 95, 83, 87, 73, 70, 84, 95, 72>>
    ELSE <<65, 95, 83, 87, 73, 70, 84, 95, 72>>

DiagnosticPush == Line("pragma", "clang diagnostic push")
DiagnosticPop == Line("pragma", "clang diagnostic pop")
AttributePush == LineArg("pragma", "clang attribute push", getName(M))
AttributePop == Line("pragma", "clang attribute pop")
HasAttributeIf == Line("if", "__has_attribute(external_source_symbol)")

TheOne(S) == CHOOSE x \in S : TRUE

\* C8: the #if depth never goes below zero, #else and #elif occur inside an
\* #if only, and in the finished header: the depth ends at zero; lines 2 and
\* 3 are #ifndef G and #define G with G the upper-cased module name followed
\* by _SWIFT_H, and the scope of that #ifndef is closed by the last line and
\* not before; the diagnostic push, the attribute push, the attribute pop and
\* the diagnostic pop each occur once, in this order; and the attribute push
\* and pop each sit directly under #if __has_attribute(external_source_symbol).
C8_ScopesBalanced ==
  LET depths == Depths(os)
      n == Len(os)
  IN /\ \A i \in 1..n : depths[i] >= 0
     /\ \A i \in 1..n : os[i].dir \in {"else", "elif"} => depths[i] >= 1
     /\ Finished =>
          /\ depths[n] = 0
          /\ os[2] = LineArg("ifndef", "", ExpectedGuard)
          /\ os[3] = LineArg("define", "", ExpectedGuard)
          /\ os[n] = Line("endif", "")
          /\ \A i \in 2..(n - 1) : depths[i] >= 1
          /\ \A mark \in {DiagnosticPush, DiagnosticPop, AttributePush, AttributePop} :
               Cardinality(Positions(os, mark)) = 1
          /\ LET dpush == TheOne(Positions(os, DiagnosticPush))
                 dpop == TheOne(Positions(os, DiagnosticPop))
                 apush == TheOne(Positions(os, AttributePush))
                 apop == TheOne(Positions(os, AttributePop))
             IN /\ dpush < apush /\ apush < apop /\ apop < dpop /\ dpop < n
                /\ depths[dpush] = 1 /\ depths[dpop] = 1
                /\ depths[apush] = 2 /\ depths[apop] = 2
                /\ os[EnclosingIf(os, depths, apush)] = HasAttributeIf
                /\ os[EnclosingIf(os, depths, apop)] = HasAttributeIf
                /\ EnclosingIf(os, depths, dpush) = 2
                /\ EnclosingIf(os, depths, dpop) = 2
          /\ \A i \in 1..n : os[i].dir = "pragma" =>
               (os[i].text \in {"clang diagnostic push", "clang diagnostic pop",
                                "clang attribute push", "clang attribute pop"}
                  => os[i] \in {DiagnosticPush, DiagnosticPop, AttributePush, AttributePop})

C8_Witness ==
  /\ pc = "done"
  /\ getName(M) = NameBa
  /\ os[2] = LineArg("ifndef", "", <<66, 65, 95, 83, 87, 73, 70, 84, 95, 72>>)
  /\ os[Len(os)] = Line("endif", "")
  /\ objcModuleContents # << >>
  /\ cxxModuleContents # << >>
  /\ imports # {}

\* ---------------------------------------------------------------------- C2
\* Path p comes before path q, compared component by component from the
\* top-level component down to the leaf.
PathBefore(p, q) ==
  \E k \in 1..Len(q) :
    /\ \A m \in 1..(k - 1) : m <= Len(p) /\ p[m] = q[m]
    /\ \/ k = Len(p) + 1
       \/ k <= Len(p) /\ StrLess(p[k], q[k])

\* The order of the import list as the property words it.
ListedBefore(a, b) ==
  IF a.kind = "swift" /\ b.kind = "swift" THEN StrLess(a.path[1], b.path[1])
  ELSE IF a.kind = "clang" /\ b.kind = "clang" THEN PathBefore(a.path, b.path)
  ELSE IF a.kind = "clang" THEN StrLess(a.path[1], b.path[1])
  ELSE ~StrLess(b.path[1], a.path[1])

\* C2: every @import line written is the line of an entry of the import set,
\* and whenever the line of entry a is written before the line of entry b,
\* a comes before b in the import order: by name for two compiler-native
\* modules, by path from the top-level component down for two foreign
\* submodules, by top-level component against name for one of each.
C2_ImportsInComparatorOrder ==
  AfterImports =>
    LET lines == AtImportLines(os)
    IN /\ \A i \in DOMAIN lines : \E e \in imports : ImportedAs(e) = lines[i].arg
       /\ \A i, j \in DOMAIN lines :
            i < j =>
              \A a, b \in imports :
                (ImportedAs(a) = lines[i].arg /\ ImportedAs(b) = lines[j].arg)
                  => ListedBefore(a, b)

C2_Witness ==
  /\ AfterImports
  /\ imports = {SwiftModule(1, NameB), SwiftModule(1, NameA),
                ClangModule(<<NameA, NameLowerA>>)}
  /\ AtImportLines(os) = << AtImport(NameA), AtImport(<<65, 46, 97>>), AtImport(NameB) >>

\* ---------------------------------------------------------------------- C3
\* A distinct module entry with the name of the module being printed.
SameNamed(e) == e.kind = "swift" /\ e # M /\ e.path[1] = M.path[1]

\* The include statement the property names.
ExpectedInclude ==
  IF bridgingHeader = << >>
    THEN LineArg("import", "<>", M.path[1] \o <<47>> \o M.path[1] \o <<46, 104>>)
    ELSE LineArg("import", "quoted", bridgingHeader)

\* The include statement stands after the import block: after its #endif and
\* blank line, and after every @import line.
IncludeAfterBlock ==
  \A i \in DOMAIN os :
    IsInclude(os[i]) =>
      /\ i > 2 /\ os[i - 2] = Line("endif", "") /\ os[i - 1] = Blank
      /\ \A j \in DOMAIN os : IsAtImport(os[j]) => j < i

\* C3 as stated: a same-named entry in the import set is not imported with
\* @import and makes the one include statement appear, with and without a
\* bridging header.
C3_SameNamedAlwaysCollapses ==
  (AfterImports /\ \E e \in imports : SameNamed(e)) =>
    /\ \A i \in DOMAIN os : IsAtImport(os[i]) => os[i].arg # M.path[1]
    /\ IncludeLines(os) = << ExpectedInclude >>
    /\ IncludeAfterBlock

\* The underlying module as writeImports decides it.
Underlying(e) ==
  IF bridgingHeader = << >> THEN SameNamed(e) ELSE e = ImportedHeaderModule

\* C3 amended: the @import lines are those of the entries that are not the
\* underlying module, and the include statement is written, once and after the
\* import block, exactly when some entry is the underlying module -- a
\* same-named entry when no bridging header is given, the imported header
\* module when one is given.
C3_UnderlyingCollapses ==
  AfterImports =>
    /\ {os[i].arg : i \in {j \in DOMAIN os : IsAtImport(os[j])}}
         = {ImportedAs(e) : e \in {x \in imports : ~Underlying(x)}}
    /\ IncludeLines(os) =
         (IF \E e \in imports : Underlying(e) THEN << ExpectedInclude >> ELSE << >>)
    /\ IncludeAfterBlock

C3_Witness ==
  /\ AfterImports
  /\ bridgingHeader # << >>
  /\ M.path[1] = NameLowerA
  /\ imports = {ImportedHeaderModule, SwiftModule(1, NameLowerA), SwiftModule(1, NameB)}
  /\ AtImportLines(os) = << AtImport(NameB), AtImport(NameLowerA) >>
  /\ IncludeLines(os) = << LineArg("import", "quoted", <<104, 46, 104>>) >>

\* ---------------------------------------------------------------------- C4
\* C4: the header written so far is the same for every order in which the
\* import set can come out of the sort, whatever order it was iterated in.
C4_OrderIndependent ==
  AfterImports =>
    \A sortedImports \in array_pod_sort(imports) :
      LET head == writePrologue(computeMacroGuard(M))
                    \o emitObjCConditional(writeImports(sortedImports, M, bridgingHeader),
                                           FALSE, << >>)
      IN /\ Len(head) <= Len(os)
         /\ SubSeq(os, 1, Len(head)) = head

C4_Witness ==
  /\ AfterImports
  /\ {SwiftModule(1, NameA), SwiftModule(2, NameA)} \subseteq imports
  /\ Cardinality(imports) = MaxImports
  /\ Cardinality(array_pod_sort(imports)) >= 2

\* ---------------------------------------------------------------------- C5
\* C5: no two @import lines of the output name the same module.
C5_NoDuplicateImport ==
  LET lines == AtImportLines(os)
  IN \A i, j \in DOMAIN lines : i # j => lines[i].arg # lines[j].arg

C5_Witness ==
  /\ AfterImports
  /\ {SwiftModule(1, NameA), SwiftModule(2, NameA)} \subseteq imports
  /\ Cardinality(Positions(os, AtImport(NameA))) = 1

DistinctNativeNames(S) ==
  \A a, b \in S : (a.kind = "swift" /\ b.kind = "swift" /\ a # b) => a.path[1] # b.path[1]

ImportTextOf(out) == << AtImportLines(out), IncludeLines(out) >>

\* C10: nothing is written before the Objective-C pass has run; after that
\* pass the import accumulator never changes; only the import block adds
\* @import or #import lines; every such line comes from an entry of that
\* accumulator; and a module that only the C++ pass registered has no line.
C10_ImportsFromObjCPassOnly ==
  /\ [](pc = "printModuleContentsAsObjC" => os = << >>)
  /\ [][pc # "printModuleContentsAsObjC" => imports' = imports]_vars
  /\ [][pc # "writeImports" => ImportTextOf(os') = ImportTextOf(os)]_vars
  /\ [](\A i \in DOMAIN os :
          /\ IsAtImport(os[i]) => \E e \in imports : ImportedAs(e) = os[i].arg
          /\ IsInclude(os[i]) => \E e \in imports : Underlying(e))
  /\ [](\A e \in cxxImports :
          (\A x \in imports : ImportedAs(x) # ImportedAs(e)) =>
            /\ Positions(os, AtImport(ImportedAs(e))) = {}
            /\ ((\A x \in imports : ~Underlying(x)) => IncludeLines(os) = << >>))

C10_Witness ==
  /\ pc = "cxxBodyWrite"
  /\ ExposePublicDeclsInClangHeader
  /\ bridgingHeader # << >>
  /\ imports = {SwiftModule(1, NameB)}
  /\ cxxImports = {ImportedHeaderModule, ClangModule(<<NameBa, NameA>>)}
  /\ AtImportLines(os) = << AtImport(NameB) >>
  /\ IncludeLines(os) = << >>

====
